---- MODULE Spec2Model ----
(***************************************************************************)
(* Renderer-side view state of spito-gui: the authentication modal         *)
(* (AuthModal.tsx) and the profile page (Profile, src/unnamed/part_002).   *)
(*                                                                         *)
(* Strings are sequences of characters.  A DOM input reached through a ref *)
(* is a record [current |-> mounted?, value |-> its text]; an optional     *)
(* value (UserInfo | null, Blob | undefined, ProfileInterface | undefined) *)
(* is a set with at most one element.  Every asynchronous handler is split *)
(* at its await: the part before it is one action, the continuation that   *)
(* runs when the response arrives is another, and the call in between is   *)
(* a record of inflight.                                                   *)
(***************************************************************************)
EXTENDS Integers, Sequences, FiniteSets, TLC

VARIABLES
    \* ---- AuthModal.tsx
    email,               \* useState<string>("")
    usernameRef,         \* the Username input (Register view only)
    passwordRef,         \* the Password input (Login and Register views)
    repeatPasswordRef,   \* the Repeat-password input (Register view only)
    isUserRegistering,   \* useState<boolean>(false)
    isTwoFAEnabled,      \* useState<boolean>(false)
    twoFACode,           \* useState<string>("")
    modalOpen,           \* the parent's flag that closeModal() clears
    \* ---- shared
    loggedUserData,      \* the session value (userAtom), written by updateUser
    inflight,            \* network calls awaiting their response
    ev,                  \* the handler or continuation that ran last, with
                         \* its input and the toast call it made
    \* ---- Profile (part_002)
    userId,              \* route parameter: id of the profile being viewed
    userData,            \* useState<ProfileInterface>()
    isUserChangingSettings,
    isUserChangingAvatar,
    avatarUrl,
    avatarBlob,          \* useState<Blob>()
    profUsernameRef,     \* Profile's usernameRef (mounted while editing)
    descriptionRef,      \* Profile's descriptionRef (mounted while editing)
    fileInput,           \* value of the hidden <input type="file">
    toBlobPending,       \* canvas.toBlob callbacks not yet delivered
    \* ---- NewEnviroment (part_001)
    stage,               \* useState<number>(1)
    enviromentName,      \* useState<string>("")
    tags,                \* useState<Array<tagInterface>>([])
    isPrivate,           \* useState<boolean>(false)
    envDescriptionRef    \* NewEnviroment's descriptionRef (the stage-2 textarea)

authVars == <<email, usernameRef, passwordRef, repeatPasswordRef, isUserRegistering,
              isTwoFAEnabled, twoFACode, modalOpen>>
profileVars == <<userId, userData, isUserChangingSettings, isUserChangingAvatar,
                 avatarUrl, avatarBlob, profUsernameRef, descriptionRef, fileInput,
                 toBlobPending>>
wizardVars == <<stage, enviromentName, tags, isPrivate, envDescriptionRef>>
sharedVars == <<loggedUserData, inflight, ev>>
vars == <<authVars, profileVars, wizardVars, sharedVars>>

----------------------------------------------------------------------------
(* Bounds and input sets *)

MaxInFlight == 2     \* network calls awaiting their response at once
MaxPendingBlobs == 1 \* canvas.toBlob callbacks outstanding at once

\* Texts a user can have in an input: empty, whitespace only, two different words.
Strings == {<<>>, <<" ">>, <<"a">>, <<"b">>}

\* AuthCode delivers the digits typed so far; the widget has six cells.
CodeLength == 6
Codes == {[i \in 1..n |-> "1"] : n \in 0..CodeLength}

LoginStatuses == {200, 600, 403, 500}
RegisterStatuses == {201, 400}

\* UserInfo values, by id.  NoUser is the logged-out session value (falsy id).
UserInfo(n) == [id |-> n]
NoUser == UserInfo(0)
Users == {UserInfo(1), UserInfo(2)}
\* getUserInfo(): UserInfo | null
UserInfoResults == {{}} \cup {{u} : u \in Users}

----------------------------------------------------------------------------
(* Helpers *)

\* JavaScript truthiness of a string: only "" is falsy.
Truthy(s) == Len(s) > 0

Unmounted == [current |-> FALSE, value |-> <<>>]
Mounted(s) == [current |-> TRUE, value |-> s]

\* !ref.current?.value
RefEmpty(ref) == ~ref.current \/ ~Truthy(ref.value)

\* The branch of the render's conditional that is shown.
ViewOf(twoFA, registering) ==
    IF twoFA THEN "TwoFactorChallenge"
    ELSE IF registering THEN "Register" ELSE "Login"

View == ViewOf(isTwoFAEnabled, isUserRegistering)

\* The toast call a step makes (every handler and continuation makes at most
\* one).  toast.loading(msg) returns the id that the flow's later
\* toast.success(msg, {id}), toast.error(msg, {id}) or toast.dismiss(id) names;
\* the model uses the id of the flow's call.  id 0: a notice of its own.
ToastCall(call, msg, id) == [call |-> call, msg |-> msg, id |-> id]
NoToast == ToastCall("none", "", 0)

Event(op, status, info, toast) ==
    [op |-> op, status |-> status, info |-> info, toast |-> toast]

\* Ids not used by the calls in S.
FreeIds(S) == {i \in 1..(Cardinality(S) + 1) : \A c \in S : c.id /= i}

\* A call issued while the calls in S are in flight.  blob is the avatar blob
\* the issuing handler closed over ({} when it has none).
Call(S, kind, blob) ==
    [kind |-> kind,
     id |-> CHOOSE i \in FreeIds(S) : \A j \in FreeIds(S) : i <= j,
     blob |-> blob]

\* Calls that the continuations of the calls in flight will add beyond the
\* slot they free: a save with a pending avatar issues updateAvatar and
\* getUserProfile when updateSettings returns.
Growth == Cardinality({c \in inflight : c.kind = "updateSettings" /\ c.blob /= {}})

\* A handler whose flow holds at most n calls at once may start.
CanCallN(n) == Cardinality(inflight) + Growth + n <= MaxInFlight
CanCall == CanCallN(1)

----------------------------------------------------------------------------
(* AuthModal.tsx *)

\* The three views are separate keyed subtrees: switching view unmounts the
\* inputs of the old one and mounts empty inputs for the new one.
RefsOf(view) ==
    CASE view = "Login" -> <<Unmounted, Mounted(<<>>), Unmounted>>
      [] view = "Register" -> <<Mounted(<<>>), Mounted(<<>>), Mounted(<<>>)>>
      [] OTHER -> <<Unmounted, Unmounted, Unmounted>>

Render(twoFA, registering) ==
    IF ViewOf(twoFA, registering) = View
    THEN UNCHANGED <<usernameRef, passwordRef, repeatPasswordRef>>
    ELSE LET r == RefsOf(ViewOf(twoFA, registering))
         IN  /\ usernameRef' = r[1]
             /\ passwordRef' = r[2]
             /\ repeatPasswordRef' = r[3]

AuthInit ==
    /\ email = <<>>
    /\ usernameRef = Unmounted
    /\ passwordRef = Mounted(<<>>)
    /\ repeatPasswordRef = Unmounted
    /\ isUserRegistering = FALSE
    /\ isTwoFAEnabled = FALSE
    /\ twoFACode = <<>>
    /\ modalOpen = TRUE

\* onChange={(e) => setEmail(e.target.value)}, in the Login and the Register view
SetEmail(s) ==
    /\ modalOpen /\ View \in {"Login", "Register"}
    /\ email' = s
    /\ ev' = Event("input", 0, {}, NoToast)
    /\ UNCHANGED <<usernameRef, passwordRef, repeatPasswordRef, isUserRegistering,
                   isTwoFAEnabled, twoFACode, modalOpen>>
    /\ UNCHANGED <<loggedUserData, inflight>>
    /\ UNCHANGED profileVars
    /\ UNCHANGED wizardVars

\* The user edits one of the uncontrolled inputs that is mounted.
TypeUsername(s) ==
    /\ modalOpen /\ usernameRef.current
    /\ usernameRef' = Mounted(s)
    /\ ev' = Event("input", 0, {}, NoToast)
    /\ UNCHANGED <<email, passwordRef, repeatPasswordRef, isUserRegistering,
                   isTwoFAEnabled, twoFACode, modalOpen>>
    /\ UNCHANGED <<loggedUserData, inflight>>
    /\ UNCHANGED profileVars
    /\ UNCHANGED wizardVars

TypePassword(s) ==
    /\ modalOpen /\ passwordRef.current
    /\ passwordRef' = Mounted(s)
    /\ ev' = Event("input", 0, {}, NoToast)
    /\ UNCHANGED <<email, usernameRef, repeatPasswordRef, isUserRegistering,
                   isTwoFAEnabled, twoFACode, modalOpen>>
    /\ UNCHANGED <<loggedUserData, inflight>>
    /\ UNCHANGED profileVars
    /\ UNCHANGED wizardVars

TypeRepeatPassword(s) ==
    /\ modalOpen /\ repeatPasswordRef.current
    /\ repeatPasswordRef' = Mounted(s)
    /\ ev' = Event("input", 0, {}, NoToast)
    /\ UNCHANGED <<email, usernameRef, passwordRef, isUserRegistering,
                   isTwoFAEnabled, twoFACode, modalOpen>>
    /\ UNCHANGED <<loggedUserData, inflight>>
    /\ UNCHANGED profileVars
    /\ UNCHANGED wizardVars

changeAuthMethodHandler ==
    /\ modalOpen /\ View \in {"Login", "Register"}
    /\ isUserRegistering' = ~isUserRegistering
    /\ Render(isTwoFAEnabled, ~isUserRegistering)
    /\ ev' = Event("changeAuthMethodHandler", 0, {}, NoToast)
    /\ UNCHANGED <<email, isTwoFAEnabled, twoFACode, modalOpen>>
    /\ UNCHANGED <<loggedUserData, inflight>>
    /\ UNCHANGED profileVars
    /\ UNCHANGED wizardVars

\* handleRegister, line 32: !usernameRef.current?.value || !email || !passwordRef.current?.value
RegisterFieldsMissing == RefEmpty(usernameRef) \/ ~Truthy(email) \/ RefEmpty(passwordRef)

\* Mutant: the password is compared with itself, so a mismatch is never seen.
PasswordsDiffer_SameRef == passwordRef.value /= passwordRef.value

\* handleRegister, line 35: passwordRef.current?.value !== repeatPasswordRef.current?.value
PasswordsDiffer ==
    \/ passwordRef.current /= repeatPasswordRef.current
    \/ passwordRef.current /\ passwordRef.value /= repeatPasswordRef.value

\* handleRegister up to its await; bound to the Register button only.
handleRegister ==
    /\ modalOpen /\ View = "Register"
    /\ IF RegisterFieldsMissing
       THEN /\ ev' = Event("handleRegister", 0, {}, NoToast)
            /\ UNCHANGED inflight
       ELSE IF PasswordsDiffer
       THEN /\ ev' = Event("handleRegister", 0, {},
                           ToastCall("error", "Passwords do not match", 0))
            /\ UNCHANGED inflight
       ELSE /\ CanCall
            /\ LET c == Call(inflight, "register", {})
               IN  /\ ev' = Event("handleRegister", 0, {},
                                  ToastCall("loading", "Registering...", c.id))
                   /\ inflight' = inflight \cup {c}
    /\ UNCHANGED authVars
    /\ UNCHANGED loggedUserData
    /\ UNCHANGED profileVars
    /\ UNCHANGED wizardVars

\* handleRegister after its await.
RegisterResponse(c, status) ==
    /\ c \in inflight /\ c.kind = "register"
    /\ inflight' = inflight \ {c}
    /\ IF status = 201
       THEN /\ ev' = Event("registerResponse", status, {},
                           ToastCall("success", "Successfully registered", c.id))
            /\ isUserRegistering' = FALSE
            /\ Render(isTwoFAEnabled, FALSE)
       ELSE /\ ev' = Event("registerResponse", status, {},
                           ToastCall("error", "Failed to register", c.id))
            /\ UNCHANGED <<isUserRegistering, usernameRef, passwordRef, repeatPasswordRef>>
    /\ UNCHANGED <<email, isTwoFAEnabled, twoFACode, modalOpen>>
    /\ UNCHANGED loggedUserData
    /\ UNCHANGED profileVars
    /\ UNCHANGED wizardVars

\* Mutant: the password is not looked at.
LoginFieldsMissing_EmailOnly == ~Truthy(email)

\* handleLogin, line 54: !email || !passwordRef.current?.value
LoginFieldsMissing == ~Truthy(email) \/ RefEmpty(passwordRef)

\* handleLogin up to its await.  It is bound to the Login button and the
\* Enter key of the Login view's password input, and to the Enter key of the
\* Register view's repeat-password input (line 164).
handleLogin ==
    /\ modalOpen /\ View \in {"Login", "Register"}
    /\ IF LoginFieldsMissing
       THEN /\ ev' = Event("handleLogin", 0, {}, NoToast)
            /\ UNCHANGED inflight
       ELSE /\ CanCall
            /\ LET c == Call(inflight, "login", {})
               IN  /\ ev' = Event("handleLogin", 0, {},
                                  ToastCall("loading", "Logging in...", c.id))
                   /\ inflight' = inflight \cup {c}
    /\ UNCHANGED authVars
    /\ UNCHANGED loggedUserData
    /\ UNCHANGED profileVars
    /\ UNCHANGED wizardVars

\* Mutant: the null check is missing, a null result overwrites the session.
updateUser_NoGuard(info) == IF info /= {} THEN CHOOSE u \in info : TRUE ELSE NoUser

\* if (info) updateUser(info): the session value afterwards.
updateUser(info) == IF info /= {} THEN CHOOSE u \in info : TRUE ELSE loggedUserData

\* Mutant: the loading notice is left in place.
DismissLoading_Forgotten(id) == NoToast

\* Line 61: toast.dismiss(toastId)
DismissLoading(id) == ToastCall("dismiss", "", id)

\* handleLogin after its await; info is what getUserInfo() returns.
LoginResponse(c, status, info) ==
    /\ c \in inflight /\ c.kind = "login"
    /\ inflight' = inflight \ {c}
    /\ IF status = 600
       THEN /\ isTwoFAEnabled' = TRUE
            /\ Render(TRUE, isUserRegistering)
            /\ ev' = Event("loginResponse", status, {}, DismissLoading(c.id))
            /\ UNCHANGED <<loggedUserData, modalOpen>>
       ELSE IF status = 200
       THEN /\ ev' = Event("loginResponse", status, info,
                           ToastCall("success", "Successfully logged in", c.id))
            /\ loggedUserData' = updateUser(info)
            /\ modalOpen' = FALSE
            /\ UNCHANGED <<isTwoFAEnabled, usernameRef, passwordRef, repeatPasswordRef>>
       ELSE /\ ev' = Event("loginResponse", status, {},
                           ToastCall("error",
                                     IF status = 403 THEN "Wrong email or password!"
                                                     ELSE "Failed to log in",
                                     c.id))
            /\ UNCHANGED <<isTwoFAEnabled, usernameRef, passwordRef, repeatPasswordRef,
                           loggedUserData, modalOpen>>
    /\ UNCHANGED <<email, isUserRegistering, twoFACode>>
    /\ UNCHANGED profileVars
    /\ UNCHANGED wizardVars

\* AuthCode onChange
handleAuthCodeState(res) ==
    /\ modalOpen /\ View = "TwoFactorChallenge"
    /\ twoFACode' = res
    /\ ev' = Event("handleAuthCodeState", 0, {}, NoToast)
    /\ UNCHANGED <<email, usernameRef, passwordRef, repeatPasswordRef, isUserRegistering,
                   isTwoFAEnabled, modalOpen>>
    /\ UNCHANGED <<loggedUserData, inflight>>
    /\ UNCHANGED profileVars
    /\ UNCHANGED wizardVars

\* submit2FA up to its await.
submit2FA ==
    /\ modalOpen /\ View = "TwoFactorChallenge"
    /\ IF Len(twoFACode) /= CodeLength
       THEN /\ ev' = Event("submit2FA", 0, {}, NoToast)
            /\ UNCHANGED inflight
       ELSE /\ CanCall
            /\ LET c == Call(inflight, "verify2FA", {})
               IN  /\ ev' = Event("submit2FA", 0, {},
                                  ToastCall("loading", "Logging in...", c.id))
                   /\ inflight' = inflight \cup {c}
    /\ UNCHANGED authVars
    /\ UNCHANGED loggedUserData
    /\ UNCHANGED profileVars
    /\ UNCHANGED wizardVars

\* Mutant: the response is not looked at.
Verified_Always(response) == TRUE

\* Line 90: if (response)
Verified(response) == response

\* submit2FA after its await.
Verify2FAResponse(c, response, info) ==
    /\ c \in inflight /\ c.kind = "verify2FA"
    /\ inflight' = inflight \ {c}
    /\ IF Verified(response)
       THEN /\ ev' = Event("verify2FAResponse", IF response THEN 1 ELSE 0, info,
                           ToastCall("success", "Successfully logged in", c.id))
            /\ loggedUserData' = updateUser(info)
            /\ modalOpen' = FALSE
       ELSE /\ ev' = Event("verify2FAResponse", 0, {}, NoToast)
            /\ UNCHANGED <<loggedUserData, modalOpen>>
    /\ UNCHANGED <<email, usernameRef, passwordRef, repeatPasswordRef, isUserRegistering,
                   isTwoFAEnabled, twoFACode>>
    /\ UNCHANGED profileVars
    /\ UNCHANGED wizardVars

\* onClick={closeModal} on the backdrop and on the X icon.
closeModal ==
    /\ modalOpen
    /\ modalOpen' = FALSE
    /\ ev' = Event("closeModal", 0, {}, NoToast)
    /\ UNCHANGED <<email, usernameRef, passwordRef, repeatPasswordRef, isUserRegistering,
                   isTwoFAEnabled, twoFACode>>
    /\ UNCHANGED <<loggedUserData, inflight>>
    /\ UNCHANGED profileVars
    /\ UNCHANGED wizardVars

----------------------------------------------------------------------------
(* Profile (src/unnamed/part_002) *)

NameTexts == {<<>>, <<"a">>, <<"b">>}
DescriptionTexts == {<<>>, <<"x">>}
\* What getUserProfile can answer; an answer without a username is an error.
Profiles == [username : {<<>>, <<"a">>}, description : DescriptionTexts]
FileTypes == {"image/png", "image/jpeg", "image/gif"}
\* e.target.files[0]: undefined, or a file of some type
Files == {{}} \cup {{t} : t \in FileTypes}
Blob == "blob"

\* userData?.username, userData?.description: a string, or undefined ({}).
SnapshotUsername == {d.username : d \in userData}
SnapshotDescription == {d.description : d \in userData}

\* The inputs rendered while editing: value / defaultValue come from userData.
EditInputs(data) ==
    <<Mounted(IF data = {} THEN <<>> ELSE (CHOOSE d \in data : TRUE).username),
      Mounted(IF data = {} THEN <<>> ELSE (CHOOSE d \in data : TRUE).description)>>

\* setIsUserChangingSettings(v) and the render that follows it.
SetChangingSettings(v) ==
    /\ isUserChangingSettings' = v
    /\ IF v = isUserChangingSettings
       THEN UNCHANGED <<profUsernameRef, descriptionRef>>
       ELSE IF v
       THEN /\ profUsernameRef' = EditInputs(userData)[1]
            /\ descriptionRef' = EditInputs(userData)[2]
       ELSE /\ profUsernameRef' = Unmounted
            /\ descriptionRef' = Unmounted

ProfileInit ==
    /\ userId = 1
    /\ userData = {}
    /\ isUserChangingSettings = FALSE
    /\ isUserChangingAvatar = FALSE
    /\ avatarUrl = ""
    /\ avatarBlob = {}
    /\ profUsernameRef = Unmounted
    /\ descriptionRef = Unmounted
    /\ fileInput = ""
    /\ toBlobPending = 0

\* Line 49: !loggedUserData.id
LoggedOut(u) == u.id = 0

\* The session value changes (login, logout, another user logs in), and the
\* effect on [loggedUserData] runs.
SessionChange(u) ==
    /\ u /= loggedUserData
    /\ loggedUserData' = u
    /\ IF LoggedOut(u)
       THEN SetChangingSettings(FALSE)
       ELSE UNCHANGED <<isUserChangingSettings, profUsernameRef, descriptionRef>>
    /\ ev' = Event("sessionChange", 0, {}, NoToast)
    /\ UNCHANGED <<userId, userData, isUserChangingAvatar, avatarUrl, avatarBlob,
                   fileInput, toBlobPending>>
    /\ UNCHANGED inflight
    /\ UNCHANGED authVars
    /\ UNCHANGED wizardVars

\* fetchData after its await: if (data.username) setUserData(data).  The
\* username input is controlled by value={userData?.username}.
FetchResponse(c, data) ==
    /\ c \in inflight /\ c.kind = "getUserProfile"
    /\ inflight' = inflight \ {c}
    /\ IF Truthy(data.username)
       THEN /\ userData' = {data}
            /\ profUsernameRef' = IF profUsernameRef.current /\ userData /= {data}
                                  THEN Mounted(data.username) ELSE profUsernameRef
       ELSE UNCHANGED <<userData, profUsernameRef>>
    /\ ev' = Event("fetchResponse", 0, {}, NoToast)
    /\ UNCHANGED <<userId, isUserChangingSettings, isUserChangingAvatar, avatarUrl,
                   avatarBlob, descriptionRef, fileInput, toBlobPending>>
    /\ UNCHANGED loggedUserData
    /\ UNCHANGED authVars
    /\ UNCHANGED wizardVars

\* The user edits the username input / the description textarea.
TypeProfileUsername(s) ==
    /\ profUsernameRef.current
    /\ profUsernameRef' = Mounted(s)
    /\ ev' = Event("input", 0, {}, NoToast)
    /\ UNCHANGED <<userId, userData, isUserChangingSettings, isUserChangingAvatar,
                   avatarUrl, avatarBlob, descriptionRef, fileInput, toBlobPending>>
    /\ UNCHANGED <<loggedUserData, inflight>>
    /\ UNCHANGED authVars
    /\ UNCHANGED wizardVars

TypeDescription(s) ==
    /\ descriptionRef.current
    /\ descriptionRef' = Mounted(s)
    /\ ev' = Event("input", 0, {}, NoToast)
    /\ UNCHANGED <<userId, userData, isUserChangingSettings, isUserChangingAvatar,
                   avatarUrl, avatarBlob, profUsernameRef, fileInput, toBlobPending>>
    /\ UNCHANGED <<loggedUserData, inflight>>
    /\ UNCHANGED authVars
    /\ UNCHANGED wizardVars

\* Mutant: the pending avatar is required instead of excluded.
SettingsUnchanged_BlobRequired ==
    /\ {profUsernameRef.value} = SnapshotUsername
    /\ {descriptionRef.value} = SnapshotDescription
    /\ avatarBlob /= {}

\* Lines 66-70 and 92: the inputs equal the snapshot and no avatar is pending.
SettingsUnchanged ==
    /\ {profUsernameRef.value} = SnapshotUsername
    /\ {descriptionRef.value} = SnapshotDescription
    /\ avatarBlob = {}

\* The settings icon, rendered when loggedUserData?.id === +userId.
\* answer is what confirm() returns when it is asked.
handleReactingWithSettings(answer) ==
    /\ loggedUserData.id = userId
    /\ ev' = Event("handleReactingWithSettings", 0, {}, NoToast)
    /\ IF ~isUserChangingSettings
       THEN SetChangingSettings(TRUE) /\ UNCHANGED avatarBlob
       ELSE IF profUsernameRef.current /\ descriptionRef.current
       THEN IF SettingsUnchanged
            THEN SetChangingSettings(FALSE) /\ UNCHANGED avatarBlob
            ELSE IF answer
            THEN avatarBlob' = {} /\ SetChangingSettings(FALSE)
            ELSE UNCHANGED <<avatarBlob, isUserChangingSettings, profUsernameRef,
                             descriptionRef>>
       ELSE UNCHANGED <<avatarBlob, isUserChangingSettings, profUsernameRef,
                        descriptionRef>>
    /\ UNCHANGED <<userId, userData, isUserChangingAvatar, avatarUrl, fileInput,
                   toBlobPending>>
    /\ UNCHANGED <<loggedUserData, inflight>>
    /\ UNCHANGED authVars
    /\ UNCHANGED wizardVars

\* Mutant: the check compares with a value the input never has.
UsernameIsEmpty_Never(username) == FALSE

\* Line 88: username === ""
UsernameIsEmpty(username) == username = <<>>

\* handleSaveSettings up to its await; the Save button is rendered while editing.
handleSaveSettings ==
    /\ isUserChangingSettings
    /\ profUsernameRef.current /\ descriptionRef.current
    /\ IF UsernameIsEmpty(profUsernameRef.value)
       THEN /\ ev' = Event("handleSaveSettings", 0, {},
                           ToastCall("error", "Username can't be empty!", 0))
            /\ UNCHANGED <<isUserChangingSettings, profUsernameRef, descriptionRef,
                           inflight>>
       ELSE IF SettingsUnchanged
       THEN /\ ev' = Event("handleSaveSettings", 0, {}, NoToast)
            /\ SetChangingSettings(FALSE)
            /\ UNCHANGED inflight
       ELSE /\ CanCallN(IF avatarBlob = {} THEN 1 ELSE 2)
            /\ LET c == Call(inflight, "updateSettings", avatarBlob)
               IN  /\ ev' = Event("handleSaveSettings", 0, {},
                                  ToastCall("loading", "Updating...", c.id))
                   /\ inflight' = inflight \cup {c}
            /\ UNCHANGED <<isUserChangingSettings, profUsernameRef, descriptionRef>>
    /\ UNCHANGED <<userId, userData, isUserChangingAvatar, avatarUrl, avatarBlob,
                   fileInput, toBlobPending>>
    /\ UNCHANGED loggedUserData
    /\ UNCHANGED authVars
    /\ UNCHANGED wizardVars

\* Mutant: the pending avatar is never uploaded.
handleAvatarChange_Skipped(S, blob) == {}

\* if (avatarBlob) handleAvatarChange(), up to its await: the calls it adds
\* to the calls S in flight.  blob is the avatarBlob of the caller's closure.
handleAvatarChange(S, blob) ==
    IF blob /= {} THEN {Call(S, "updateAvatar", blob)} ELSE {}

\* handleSaveSettings after its await.  avatarBlob is the value the handler
\* closed over when Save was clicked (c.blob); handleAvatarChange and
\* fetchData run up to their own awaits, each issuing one call.
UpdateSettingsResponse(c, isSettingsStatusOk) ==
    /\ c \in inflight /\ c.kind = "updateSettings"
    /\ LET rest == inflight \ {c}
           avatar == handleAvatarChange(rest, c.blob)
       IN  IF isSettingsStatusOk
           THEN /\ ev' = Event("updateSettingsResponse", 1, {},
                               ToastCall("success", "Settings saved!", c.id))
                /\ inflight' = rest \cup avatar
                                 \cup {Call(rest \cup avatar, "getUserProfile", {})}
                /\ SetChangingSettings(FALSE)
           ELSE /\ ev' = Event("updateSettingsResponse", 0, {},
                               ToastCall("error", "Failed to save settings!", c.id))
                /\ inflight' = rest \cup avatar
                /\ UNCHANGED <<isUserChangingSettings, profUsernameRef, descriptionRef>>
    /\ UNCHANGED <<userId, userData, isUserChangingAvatar, avatarUrl, avatarBlob,
                   fileInput, toBlobPending>>
    /\ UNCHANGED loggedUserData
    /\ UNCHANGED authVars
    /\ UNCHANGED wizardVars

\* handleAvatarChange after its await.
UpdateAvatarResponse(c, avatarStatusOk) ==
    /\ c \in inflight /\ c.kind = "updateAvatar"
    /\ inflight' = inflight \ {c}
    /\ ev' = IF avatarStatusOk
             THEN Event("updateAvatarResponse", 1, {},
                        ToastCall("success", "Avatar updated succesfully", 0))
             ELSE Event("updateAvatarResponse", 0, {},
                        ToastCall("error", "Failed to save avatar", 0))
    /\ UNCHANGED profileVars
    /\ UNCHANGED loggedUserData
    /\ UNCHANGED authVars
    /\ UNCHANGED wizardVars

\* clearFileInput: avatarInputRef.current.value = "" (the input is always
\* rendered); value is what the input held.
clearFileInput(value) == ""

\* closeModal of AvatarEditModal
handleUserChaningAvatar ==
    /\ isUserChangingAvatar
    /\ isUserChangingAvatar' = ~isUserChangingAvatar
    /\ fileInput' = clearFileInput(fileInput)
    /\ ev' = Event("handleUserChaningAvatar", 0, {}, NoToast)
    /\ UNCHANGED <<userId, userData, isUserChangingSettings, avatarUrl, avatarBlob,
                   profUsernameRef, descriptionRef, toBlobPending>>
    /\ UNCHANGED <<loggedUserData, inflight>>
    /\ UNCHANGED authVars
    /\ UNCHANGED wizardVars

\* saveAvatarImage, called by the crop editor: the synchronous part.
saveAvatarImage ==
    /\ isUserChangingAvatar
    /\ toBlobPending < MaxPendingBlobs
    /\ toBlobPending' = toBlobPending + 1
    /\ fileInput' = clearFileInput(fileInput)
    /\ isUserChangingAvatar' = FALSE
    /\ ev' = Event("saveAvatarImage", 0, {}, NoToast)
    /\ UNCHANGED <<userId, userData, isUserChangingSettings, avatarUrl, avatarBlob,
                   profUsernameRef, descriptionRef>>
    /\ UNCHANGED <<loggedUserData, inflight>>
    /\ UNCHANGED authVars
    /\ UNCHANGED wizardVars

\* The canvas.toBlob callback; blob is null ({}) or the cropped image.
ToBlobCallback(blob) ==
    /\ toBlobPending > 0
    /\ toBlobPending' = toBlobPending - 1
    /\ IF blob = {}
       THEN UNCHANGED <<avatarUrl, avatarBlob>>
       ELSE avatarUrl' = "blob:cropped" /\ avatarBlob' = blob
    /\ ev' = Event("toBlobCallback", 0, blob, NoToast)
    /\ UNCHANGED <<userId, userData, isUserChangingSettings, isUserChangingAvatar,
                   profUsernameRef, descriptionRef, fileInput>>
    /\ UNCHANGED <<loggedUserData, inflight>>
    /\ UNCHANGED authVars
    /\ UNCHANGED wizardVars

\* Mutant: every file is let through.
AllowedType_Any(type) == TRUE

\* Line 188: file.type is "image/png" or "image/jpeg"
AllowedType(type) == type = "image/png" \/ type = "image/jpeg"

\* What the browser puts into the file input when a file is chosen.
FakePath == "C:\\fakepath\\avatar"

\* onChange of the file input, reached through the label shown while editing.
\* The browser has put the chosen file into the input before the handler runs.
uploadAvatar(file) ==
    /\ isUserChangingSettings
    /\ IF file = {}
       THEN /\ ev' = Event("uploadAvatar", 0, file, NoToast)
            /\ UNCHANGED <<fileInput, avatarUrl, isUserChangingAvatar>>
       ELSE LET type == CHOOSE t \in file : TRUE
            IN  IF ~AllowedType(type)
                THEN /\ ev' = Event("uploadAvatar", 0, file,
                                    ToastCall("error",
                                              "Only .png and .jpeg files are allowed!", 0))
                     /\ fileInput' = clearFileInput(FakePath)
                     /\ UNCHANGED <<avatarUrl, isUserChangingAvatar>>
                ELSE /\ ev' = Event("uploadAvatar", 0, file, NoToast)
                     /\ avatarUrl' = "blob:file"
                     /\ isUserChangingAvatar' = TRUE
                     /\ fileInput' = FakePath
    /\ UNCHANGED <<userId, userData, isUserChangingSettings, avatarBlob,
                   profUsernameRef, descriptionRef, toBlobPending>>
    /\ UNCHANGED <<loggedUserData, inflight>>
    /\ UNCHANGED authVars
    /\ UNCHANGED wizardVars

----------------------------------------------------------------------------
(* NewEnviroment (src/unnamed/part_001) *)

\* The three stages of the wizard; the indicator has one circle for each.
Stages == {1, 2, 3}
\* What TagInput hands to setTags.
TagLists == {<<>>, <<"t1">>, <<"t1", "t2">>}

WizardInit ==
    /\ stage = 1
    /\ enviromentName = <<>>
    /\ tags = <<>>
    /\ isPrivate = FALSE
    /\ envDescriptionRef = Unmounted

\* Line 110: {stage !== 1 && <Button ...>Back</Button>}
BackOffered(s) == s /= 1
\* Line 121: {stage !== 3 ? <Button ...>Next</Button> : <Button ...>Create</Button>}
NextOffered(s) == s /= 3
CreateOffered(s) == ~(s /= 3)

\* setStage(n) and the render that follows it: the textarea exists only in the
\* stage-2 subtree, which is unmounted when another stage is shown and
\* mounted empty when stage 2 is shown again.
setStage(n) ==
    /\ stage' = n
    /\ envDescriptionRef' = IF n = stage THEN envDescriptionRef
                            ELSE IF n = 2 THEN Mounted(<<>>) ELSE Unmounted

\* onClick={() => setStage(n)} of the indicator circles, n = 1, 2, 3
IndicatorClick(n) ==
    /\ setStage(n)
    /\ ev' = Event("IndicatorClick", n, {}, NoToast)
    /\ UNCHANGED <<enviromentName, tags, isPrivate>>
    /\ UNCHANGED <<loggedUserData, inflight>>
    /\ UNCHANGED <<authVars, profileVars>>

\* onClick={() => setStage((prev) => prev - 1)}
Back ==
    /\ BackOffered(stage)
    /\ setStage(stage - 1)
    /\ ev' = Event("Back", 0, {}, NoToast)
    /\ UNCHANGED <<enviromentName, tags, isPrivate>>
    /\ UNCHANGED <<loggedUserData, inflight>>
    /\ UNCHANGED <<authVars, profileVars>>

\* onClick={() => setStage((prev) => prev + 1)}
Next ==
    /\ NextOffered(stage)
    /\ setStage(stage + 1)
    /\ ev' = Event("Next", 0, {}, NoToast)
    /\ UNCHANGED <<enviromentName, tags, isPrivate>>
    /\ UNCHANGED <<loggedUserData, inflight>>
    /\ UNCHANGED <<authVars, profileVars>>

\* onChange={(e) => setEnviromentName(e.target.value)}, stage 1
setEnviromentName(s) ==
    /\ stage = 1
    /\ enviromentName' = s
    /\ ev' = Event("input", 0, {}, NoToast)
    /\ UNCHANGED <<stage, tags, isPrivate, envDescriptionRef>>
    /\ UNCHANGED <<loggedUserData, inflight>>
    /\ UNCHANGED <<authVars, profileVars>>

\* onChange={() => setIsPrivate((prev) => !prev)}, stage 1
setIsPrivate ==
    /\ stage = 1
    /\ isPrivate' = ~isPrivate
    /\ ev' = Event("input", 0, {}, NoToast)
    /\ UNCHANGED <<stage, enviromentName, tags, envDescriptionRef>>
    /\ UNCHANGED <<loggedUserData, inflight>>
    /\ UNCHANGED <<authVars, profileVars>>

\* The user edits the description textarea, stage 2.
TypeEnvDescription(s) ==
    /\ envDescriptionRef.current
    /\ envDescriptionRef' = Mounted(s)
    /\ ev' = Event("input", 0, {}, NoToast)
    /\ UNCHANGED <<stage, enviromentName, tags, isPrivate>>
    /\ UNCHANGED <<loggedUserData, inflight>>
    /\ UNCHANGED <<authVars, profileVars>>

\* TagInput calls setTags, stage 3.
setTags(ts) ==
    /\ stage = 3
    /\ tags' = ts
    /\ ev' = Event("input", 0, {}, NoToast)
    /\ UNCHANGED <<stage, enviromentName, isPrivate, envDescriptionRef>>
    /\ UNCHANGED <<loggedUserData, inflight>>
    /\ UNCHANGED <<authVars, profileVars>>

\* The Create button: formSubmitHandler has an empty body.
formSubmitHandler ==
    /\ CreateOffered(stage)
    /\ ev' = Event("formSubmitHandler", 0, {}, NoToast)
    /\ UNCHANGED wizardVars
    /\ UNCHANGED <<loggedUserData, inflight>>
    /\ UNCHANGED <<authVars, profileVars>>

----------------------------------------------------------------------------
(* Specifications *)

\* The auth modal, opened by a logged-out user; the profile page is idle.
InitAuth ==
    /\ AuthInit
    /\ loggedUserData = NoUser
    /\ inflight = {}
    /\ ev = Event("init", 0, {}, NoToast)
    /\ ProfileInit
    /\ WizardInit

NextAuth ==
    \/ \E s \in Strings : SetEmail(s)
    \/ \E s \in Strings : TypeUsername(s)
    \/ \E s \in Strings : TypePassword(s)
    \/ \E s \in Strings : TypeRepeatPassword(s)
    \/ changeAuthMethodHandler
    \/ handleRegister
    \/ \E c \in inflight, status \in RegisterStatuses : RegisterResponse(c, status)
    \/ handleLogin
    \/ \E c \in inflight, status \in LoginStatuses, info \in UserInfoResults :
           LoginResponse(c, status, info)
    \/ \E res \in Codes : handleAuthCodeState(res)
    \/ submit2FA
    \/ \E c \in inflight, response \in BOOLEAN, info \in UserInfoResults :
           Verify2FAResponse(c, response, info)
    \/ closeModal

SpecAuth == InitAuth /\ [][NextAuth]_vars

\* The profile page right after mount: the mount effect's fetchData is in flight.
InitProfile ==
    /\ ProfileInit
    /\ loggedUserData \in {NoUser} \cup Users
    /\ inflight = {Call({}, "getUserProfile", {})}
    /\ ev = Event("init", 0, {}, NoToast)
    /\ AuthInit
    /\ WizardInit

NextProfile ==
    \/ \E u \in {NoUser} \cup Users : SessionChange(u)
    \/ \E c \in inflight, data \in Profiles : FetchResponse(c, data)
    \/ \E s \in NameTexts : TypeProfileUsername(s)
    \/ \E s \in DescriptionTexts : TypeDescription(s)
    \/ \E answer \in BOOLEAN : handleReactingWithSettings(answer)
    \/ handleSaveSettings
    \/ \E c \in inflight, ok \in BOOLEAN : UpdateSettingsResponse(c, ok)
    \/ \E c \in inflight, ok \in BOOLEAN : UpdateAvatarResponse(c, ok)
    \/ handleUserChaningAvatar
    \/ saveAvatarImage
    \/ \E blob \in {{}, {Blob}} : ToBlobCallback(blob)
    \/ \E file \in Files : uploadAvatar(file)

SpecProfile == InitProfile /\ [][NextProfile]_vars

\* The wizard right after mount; the modal and the profile page are idle.
InitWizard ==
    /\ WizardInit
    /\ loggedUserData = NoUser
    /\ inflight = {}
    /\ ev = Event("init", 0, {}, NoToast)
    /\ AuthInit
    /\ ProfileInit

NextWizard ==
    \/ \E n \in Stages : IndicatorClick(n)
    \/ Back
    \/ Next
    \/ \E s \in Strings : setEnviromentName(s)
    \/ setIsPrivate
    \/ \E s \in DescriptionTexts : TypeEnvDescription(s)
    \/ \E ts \in TagLists : setTags(ts)
    \/ formSubmitHandler

SpecWizard == InitWizard /\ [][NextWizard]_vars

----------------------------------------------------------------------------
(* Claims about the auth modal, checked under SpecAuth.                    *)
(* Every action sets ev, so a step with ev'.op = "h" is a run of handler h *)
(* and a state with ev.op = "h" is the state right after it.               *)

\* The text of an input as the claims speak of it ("" when it is not mounted).
TextOf(ref) == IF ref.current THEN ref.value ELSE <<>>

NoCallIssued == UNCHANGED inflight

\* s is empty or consists only of whitespace.
IsBlank(s) == \A i \in 1..Len(s) : s[i] = " "

MismatchNotice == ToastCall("error", "Passwords do not match", 0)

\* C2 as stated: handleRegister with password # repeatPassword never calls
\* register and always shows "Passwords do not match", whatever the other fields.
C2_MismatchAlwaysNoticed ==
    [][(/\ ev'.op = "handleRegister"
        /\ TextOf(passwordRef) /= TextOf(repeatPasswordRef))
       => NoCallIssued /\ ev'.toast = MismatchNotice]_vars

\* C2 amended: handleRegister with password # repeatPassword never calls
\* register; it shows "Passwords do not match" when username, email and
\* password are all non-empty, and returns silently when one of them is empty.
C2_MismatchNoticedWhenFilled ==
    [][(/\ ev'.op = "handleRegister"
        /\ TextOf(passwordRef) /= TextOf(repeatPasswordRef))
       => /\ NoCallIssued
          /\ IF \/ TextOf(usernameRef) = <<>>
                \/ email = <<>>
                \/ TextOf(passwordRef) = <<>>
             THEN ev'.toast = NoToast
             ELSE ev'.toast = MismatchNotice]_vars

\* handleRegister has just run on filled fields with different passwords.
C2_Witness ==
    /\ ev = Event("handleRegister", 0, {}, MismatchNotice)
    /\ usernameRef = Mounted(<<"a">>)
    /\ email = <<"a">>
    /\ passwordRef = Mounted(<<"a">>)
    /\ repeatPasswordRef = Mounted(<<"b">>)
    /\ inflight = {}

\* C3 as stated: after a login response 200 the session value equals what
\* getUserInfo returned and the modal is closed.
C3_SessionIsFetchedInfo ==
    (ev.op = "loginResponse" /\ ev.status = 200)
        => {loggedUserData} = ev.info /\ ~modalOpen

\* C3 amended: after a login response 200 the modal is closed; the session
\* value equals the UserInfo getUserInfo returned when it returned one, and
\* is left as it was when getUserInfo returned null.
C3_SessionIsFetchedInfoIfAny ==
    [][(ev'.op = "loginResponse" /\ ev'.status = 200)
       => /\ ~modalOpen'
          /\ IF ev'.info = {} THEN loggedUserData' = loggedUserData
                              ELSE {loggedUserData'} = ev'.info]_vars

\* A login response 200 has just delivered user 1.
C3_Witness ==
    /\ ev.op = "loginResponse" /\ ev.status = 200
    /\ ev.info = {UserInfo(1)}
    /\ loggedUserData = UserInfo(1)
    /\ ~modalOpen

\* C4: a login response 600 shows the TwoFactorChallenge view, does not close
\* the modal, leaves the session value alone, and its only toast call
\* dismisses the flow's loading notice: no success or failure notice appears.
C4_TwoFactorRequired ==
    [][(ev'.op = "loginResponse" /\ ev'.status = 600)
       => /\ View' = "TwoFactorChallenge"
          /\ modalOpen' = modalOpen
          /\ loggedUserData' = loggedUserData
          /\ ev'.toast.call \notin {"success", "error"}
          /\ \E c \in inflight :
                /\ c.kind = "login"
                /\ inflight' = inflight \ {c}
                /\ ev'.toast = ToastCall("dismiss", "", c.id)]_vars

\* A login response 600 has just arrived in the open modal, from the Login view.
C4_Witness ==
    /\ ev.op = "loginResponse" /\ ev.status = 600
    /\ ev.toast.call = "dismiss"
    /\ modalOpen
    /\ ~isUserRegistering
    /\ View = "TwoFactorChallenge"
    /\ loggedUserData = NoUser

\* C5 as stated: the TwoFactorChallenge view is entered only from the Login
\* view: the view it replaces is never Register.
C5_TwoFactorOnlyFromLogin ==
    [][(modalOpen' /\ View' = "TwoFactorChallenge" /\ View /= "TwoFactorChallenge")
       => View = "Login"]_vars

SessionFlows == {c \in inflight : c.kind \in {"login", "verify2FA"}}

\* C10 as stated: at most one session-writing flow (login or 2FA verification
\* awaiting its response) is in flight at any time.
C10_OneFlowInFlight == Cardinality(SessionFlows) <= 1

\* C10 amended: several session-writing flows can be in flight at once, but
\* the session value is written only by the continuation of one of them, one
\* response at a time: every change of the session value is a single step
\* that completes exactly one login (status 200) or 2FA verification (true)
\* and sets the session to the UserInfo getUserInfo returned to that flow.
C10_WritesOneResponseAtATime ==
    [][loggedUserData' /= loggedUserData
       => /\ \/ ev'.op = "loginResponse" /\ ev'.status = 200
             \/ ev'.op = "verify2FAResponse" /\ ev'.status = 1
          /\ {loggedUserData'} = ev'.info
          /\ \E c \in SessionFlows : inflight' = inflight \ {c}]_vars

\* A login has just written the session while another login is still in flight.
C10_Witness ==
    /\ ev.op = "loginResponse" /\ ev.status = 200
    /\ ev.info = {UserInfo(2)}
    /\ loggedUserData = UserInfo(2)
    /\ \E c \in inflight : c.kind = "login"

----------------------------------------------------------------------------
(* Claims about the profile page, checked under SpecProfile. *)

\* C6: handleSaveSettings, run while editing with the username and the
\* description equal to the stored snapshot and no avatar blob pending, issues
\* no network call, shows nothing and leaves editing.
C6_UnchangedSaveIsNoOp ==
    [][(/\ ev'.op = "handleSaveSettings"
        /\ isUserChangingSettings
        /\ \E d \in userData : /\ TextOf(profUsernameRef) = d.username
                               /\ TextOf(descriptionRef) = d.description
        /\ avatarBlob = {})
       => /\ NoCallIssued
          /\ ev'.toast = NoToast
          /\ ~isUserChangingSettings']_vars

\* handleSaveSettings has just left editing by itself: nothing is in flight.
C6_Witness ==
    /\ ev.op = "handleSaveSettings"
    /\ ~isUserChangingSettings
    /\ userData /= {}
    /\ avatarBlob = {}
    /\ inflight = {}

EmptyUsernameNotice == ToastCall("error", "Username can't be empty!", 0)

\* C7: handleSaveSettings run with an empty username, whatever the description
\* and whether or not an avatar blob is pending, shows an error notice, stays
\* in editing and issues no network call.
C7_EmptyUsernameRejected ==
    [][(ev'.op = "handleSaveSettings" /\ TextOf(profUsernameRef) = <<>>)
       => /\ ev'.toast = EmptyUsernameNotice
          /\ isUserChangingSettings /\ isUserChangingSettings'
          /\ NoCallIssued]_vars

\* handleSaveSettings has just rejected username "", description "x", with an
\* avatar blob pending.
C7_Witness ==
    /\ ev = Event("handleSaveSettings", 0, {}, EmptyUsernameNotice)
    /\ profUsernameRef = Mounted(<<>>)
    /\ descriptionRef = Mounted(<<"x">>)
    /\ avatarBlob = {Blob}
    /\ isUserChangingSettings

\* C8: choosing a file whose type is neither image/png nor image/jpeg shows an
\* error notice, does not open the crop editor, leaves the avatar URL and the
\* pending blob alone, and leaves the file input empty.
C8_WrongTypeRejected ==
    [][(/\ ev'.op = "uploadAvatar"
        /\ ev'.info /= {}
        /\ ev'.info \cap {"image/png", "image/jpeg"} = {})
       => /\ ev'.toast = ToastCall("error", "Only .png and .jpeg files are allowed!", 0)
          /\ isUserChangingAvatar' = isUserChangingAvatar
          /\ UNCHANGED <<avatarUrl, avatarBlob>>
          /\ fileInput' = ""]_vars

\* An image/gif has just been rejected with the crop editor closed.
C8_Witness ==
    /\ ev.op = "uploadAvatar" /\ ev.info = {"image/gif"}
    /\ ev.toast.call = "error"
    /\ ~isUserChangingAvatar
    /\ fileInput = ""

\* C9 as stated: settings-edit mode is editing only if the logged-in user's
\* id equals the id of the profile being viewed.
C9_EditingOnlyOwnProfile == isUserChangingSettings => loggedUserData.id = userId

\* Calls of one kind that a step adds to the calls in flight.
Issued(kind) == {c \in inflight' \ inflight : c.kind = kind}

\* C11: (a) handleSaveSettings run with a non-empty username and something
\* changed (username or description differs from the snapshot, or an avatar
\* blob is pending) issues updateSettings and nothing else, carrying the blob
\* pending at that moment; (b) when updateSettings returns success the step
\* shows the success notice, leaves editing and issues one getUserProfile;
\* when it returns failure the step shows the failure notice, leaves the mode
\* as it is and issues no getUserProfile; in both cases it issues exactly one
\* updateAvatar if a blob was pending when Save was clicked and none
\* otherwise; (c) the updateAvatar response leaves the mode alone.
C11_SaveThenAvatar ==
    [][/\ (/\ ev'.op = "handleSaveSettings"
           /\ TextOf(profUsernameRef) /= <<>>
           /\ \/ avatarBlob /= {}
              \/ ~\E d \in userData : /\ TextOf(profUsernameRef) = d.username
                                      /\ TextOf(descriptionRef) = d.description)
          => /\ \E c \in inflight' \ inflight :
                    /\ inflight' = inflight \cup {c}
                    /\ c.kind = "updateSettings"
                    /\ c.blob = avatarBlob
                    /\ ev'.toast = ToastCall("loading", "Updating...", c.id)
             /\ isUserChangingSettings' = isUserChangingSettings
       /\ ev'.op = "updateSettingsResponse"
          => \E c \in inflight \ inflight' :
                /\ inflight \ inflight' = {c}
                /\ c.kind = "updateSettings"
                /\ inflight' \ inflight = Issued("updateAvatar") \cup Issued("getUserProfile")
                /\ Cardinality(Issued("updateAvatar")) = IF c.blob /= {} THEN 1 ELSE 0
                /\ \A a \in Issued("updateAvatar") : a.blob = c.blob
                /\ IF ev'.status = 1
                   THEN /\ ev'.toast = ToastCall("success", "Settings saved!", c.id)
                        /\ ~isUserChangingSettings'
                        /\ Cardinality(Issued("getUserProfile")) = 1
                   ELSE /\ ev'.toast = ToastCall("error", "Failed to save settings!", c.id)
                        /\ isUserChangingSettings' = isUserChangingSettings
                        /\ Issued("getUserProfile") = {}
       /\ ev'.op = "updateAvatarResponse"
          => /\ isUserChangingSettings' = isUserChangingSettings
             /\ \E c \in inflight : c.kind = "updateAvatar" /\ inflight' = inflight \ {c}]_vars

\* updateSettings has just failed for a save made with an avatar blob pending:
\* the page is still editing, the upload is in flight, nothing is re-fetched.
C11_Witness ==
    /\ ev.op = "updateSettingsResponse" /\ ev.status = 0
    /\ isUserChangingSettings
    /\ \E c \in inflight : c.kind = "updateAvatar" /\ c.blob = {Blob}
    /\ \A c \in inflight : c.kind /= "getUserProfile"

----------------------------------------------------------------------------
(* Claims about failed network outcomes in the auth modal (SpecAuth). *)

\* A step that handles a failed outcome: login answering neither 200 nor 600,
\* register answering other than 201, verify2FA answering false.
FailedOutcome ==
    \/ ev'.op = "loginResponse" /\ ev'.status \notin {200, 600}
    \/ ev'.op = "registerResponse" /\ ev'.status /= 201
    \/ ev'.op = "verify2FAResponse" /\ ev'.status = 0

\* C12 as stated: every failed network outcome shows a failure notice and
\* leaves the modal's open flag, its view and the session value as they were.
C12_FailureNoticed ==
    [][FailedOutcome
       => /\ ev'.toast.call = "error"
          /\ modalOpen' = modalOpen
          /\ View' = View
          /\ loggedUserData' = loggedUserData]_vars

----------------------------------------------------------------------------
(* Claims about the new-environment wizard, checked under SpecWizard. *)

\* C13 as stated: the stage is always 1, 2 or 3, Back is not offered at
\* stage 1, Next is not offered at stage 3 where Create is shown instead, and
\* an indicator click sets the stage to the clicked value, whatever the name,
\* privacy, description and tags are, and leaves these four unchanged.
C13_StageNavigation ==
    /\ [](/\ stage \in {1, 2, 3}
          /\ stage = 1 => ~BackOffered(stage)
          /\ stage = 3 => ~NextOffered(stage) /\ CreateOffered(stage))
    /\ [][ev'.op = "IndicatorClick"
          => /\ stage' = ev'.status
             /\ enviromentName' = enviromentName
             /\ isPrivate' = isPrivate
             /\ TextOf(envDescriptionRef') = TextOf(envDescriptionRef)
             /\ tags' = tags]_vars

----------------------------------------------------------------------------
(* Claims about the pending avatar blob, checked under SpecProfile. *)

\* C14 as stated: whenever the settings-edit mode is viewing, no pending
\* avatar blob is held.
C14_NoBlobWhileViewing == ~isUserChangingSettings => avatarBlob = {}

====
